---- MODULE Spec2Model ----
(***************************************************************************)
(* A model of the halo2 verifier of src/src/verify/halo2/verify.rs:        *)
(*   - VerifierParams::from_transcript, the transcript replay, as a state  *)
(*     machine with one action per statement group of the function;        *)
(*   - Expression::ctx_evaluate, the gate-expression evaluator;            *)
(*   - SchemaGenerator::batch_multi_open_proofs, the fold of the queries;  *)
(*   - rotate_omega, x_next, x_last and queries of IVerifierParams;        *)
(*   - two interleaved runs of from_transcript.                            *)
(* The transcript is the generic T: TranscriptRead of the function: every  *)
(* read returns Ok or an io error, which is the environment's choice, and  *)
(* so does every from_constant of the arithmetic capability.  Absorbing    *)
(* (common_scalar, common_point) and squeezing only update the hash state  *)
(* and are taken to succeed.  The contents of points and scalars are not   *)
(* modelled, their number and order are; a squeezed challenge is named by  *)
(* the length of the log it was squeezed after.                            *)
(***************************************************************************)
EXTENDS Integers, Sequences, FiniteSets, TLC

\* Total size of the input of one from_transcript run: the entries of the
\* verifying key's layout plus the proof instances and their columns.
MaxInput == 6

\* Total size of the inputs of two from_transcript runs taken together.
MaxInputPair == 1

\* params.n, the size of the evaluation domain.
DomainSize == 4

\* vk.cs.blinding_factors().
BlindingFactors == 1

\* The scalar field is modelled by the integers modulo Modulus.
Modulus == 5

\* The largest number of nodes of a gate expression.
MaxNodes == 3

\* The largest number of queries in the list batch_multi_open_proofs folds.
MaxQueries == 3

VARIABLES
    vk,          \* the verifying key's layout (from_transcript's vk)
    instances,   \* instances[k][c]: length of column c of proof instance k
    supplied,    \* the challenges u, v and xi handed to from_transcript
    pc,          \* from_transcript's position
    log,         \* the transcript operations performed so far, in order
    outcome,     \* "running", "ok" (Ok returned), "err" (Err returned), "panic"
    failure,     \* what went wrong: "none", "assert", "io", "capability"
    locals,      \* from_transcript's local variables
    result,      \* the VerifierParams returned, once outcome = "ok"
    poly,        \* the gate expression handed to ctx_evaluate
    assignment,  \* the fixed, advice and instance evaluations it looks up
    evaluated,   \* the values test_ctx_evaluate compares
    proofs,      \* the query list batch_multi_open_proofs folds
    u,           \* the batching challenge self.u
    multi_open,  \* what batch_multi_open_proofs returned
    verifier,    \* the VerifierParams that queries is called on (self)
    queried,     \* what rotate_omega, x_next, x_last or queries returned
    active,      \* of two runs of from_transcript, the one that is executing
    parked,      \* the state of the other run, which is waiting
    expr,        \* the gate expression of vk handed to from_expression
    retyped,     \* what from_expression returned
    command,     \* self.args.command of the CliBuilder
    circuits,    \* the number $n of target circuits of zkaggregate!
    cli          \* CliBuilder::run: its position, its calls, how it ended

runVars == <<vk, instances, supplied, pc, log, outcome, failure, locals, result>>

evalVars == <<poly, assignment, evaluated>>

batchVars == <<proofs, u, multi_open>>

queryVars == <<verifier, queried>>

twoVars == <<active, parked>>

retypeVars == <<expr, retyped>>

cliVars == <<command, circuits, cli>>

vars == <<runVars, evalVars, batchVars, queryVars, twoVars, retypeVars,
          cliVars>>

---------------------------------------------------------------------------
\* Helpers on sequences.

RECURSIVE Concat(_)
Concat(ss) == IF ss = <<>> THEN <<>> ELSE Head(ss) \o Concat(Tail(ss))

RECURSIVE SumSeq(_)
SumSeq(s) == IF s = <<>> THEN 0 ELSE Head(s) + SumSeq(Tail(s))

\* The tuples of d naturals whose sum is at most w.
RECURSIVE Comp(_, _)
Comp(d, w) ==
    IF d = 0 THEN {<<>>}
    ELSE UNION {{<<k>> \o s : s \in Comp(d - 1, w - k)} : k \in 0..w}

---------------------------------------------------------------------------
\* The inputs of from_transcript.

\* The bound of line 511: params.n - (vk.cs.blinding_factors() + 1).
InstanceLimit == DomainSize - (BlindingFactors + 1)

\* The column lengths tried: at the bound and one above it.
InstanceLens == {InstanceLimit, InstanceLimit + 1}

\* One proof instance: its columns' lengths, at most c columns.
ProofShapes(c) == UNION {[1..m -> InstanceLens] : m \in 0..c}

\* The instance lists of total size at most w (a proof instance counts 1, a
\* column counts 1).
RECURSIVE InstanceSets(_)
InstanceSets(w) ==
    {<<>>} \cup
    (IF w < 1 THEN {}
     ELSE UNION {{<<p>> \o rest : rest \in InstanceSets(w - 1 - Len(p))} :
                 p \in ProofShapes(w - 1)})

\* The layout of a verifying key, as from_transcript reads it.  cs.degree()
\* is at least 3 in halo2; chunk_len is degree - 2 (lines 665, 678) and the
\* quotient degree of the domain is degree - 1.
VkOf(t) ==
    [num_instance_columns |-> t[1],
     num_advice_columns   |-> t[2],
     lookups              |-> t[3],
     permutation_columns  |-> t[4],
     degree               |-> t[5] + 3,
     instance_queries     |-> t[6],
     advice_queries       |-> t[7],
     fixed_queries        |-> t[8]]

num_proofs == Len(instances)

chunk_len == vk.degree - 2

quotient_poly_degree == vk.degree - 1

\* The number of permutation product commitments: one per chunk of columns.
permutation_sets == (vk.permutation_columns + chunk_len - 1) \div chunk_len

EmptyLocals ==
    [instance_commitments |-> <<>>, advice_commitments |-> <<>>,
     theta |-> 0, lookups_permuted |-> <<>>, beta |-> 0, gamma |-> 0,
     permutations_committed |-> <<>>, lookups_committed |-> <<>>,
     random_commitment |-> 0, y |-> 0, h_commitments |-> 0, x |-> 0,
     instance_evals |-> <<>>, advice_evals |-> <<>>, fixed_evals |-> 0,
     random_eval |-> 0, permutations_common |-> 0,
     permutation_evaluated |-> <<>>, lookup_evaluated |-> <<>>]

NoResult == [returned |-> FALSE]

\* The u, v and xi of the caller (lines 493-495), two samples of them.
SuppliedSamples ==
    {[u |-> 1, v |-> 2, xi |-> 3], [u |-> Modulus - 1, v |-> 0, xi |-> 1]}

NoSupplied == [u |-> 0, v |-> 0, xi |-> 0]

NoPoly == <<"Constant", 0>>

NoAssignment == [fixed |-> <<>>, advice |-> <<>>, instance |-> <<>>]

NotEvaluated == [done |-> FALSE]

NoMultiOpen == [done |-> FALSE]

NoVerifier == [x |-> 0, omega |-> 0]

NotQueried == [done |-> FALSE]

\* No evaluation and no batching is in progress.
EvalIdle ==
    /\ poly = NoPoly
    /\ assignment = NoAssignment
    /\ evaluated = NotEvaluated

BatchIdle ==
    /\ proofs = <<>>
    /\ u = 0
    /\ multi_open = NoMultiOpen

QueryIdle ==
    /\ verifier = NoVerifier
    /\ queried = NotQueried

\* A run of from_transcript that is not under way.
NoRun ==
    [vk |-> VkOf(<<0, 0, 0, 0, 0, 0, 0, 0>>), instances |-> <<>>,
     supplied |-> NoSupplied, pc |-> "idle", log |-> <<>>,
     outcome |-> "idle", failure |-> "none", locals |-> EmptyLocals,
     result |-> NoResult]

\* There is one run at most.
TwoIdle ==
    /\ active = 0
    /\ parked = NoRun

NotRetyped == [done |-> FALSE]

\* No expression is being re-typed.
RetypeIdle ==
    /\ expr = NoPoly
    /\ retyped = NotRetyped

NoCli == [pc |-> 0, calls |-> <<>>, outcome |-> "idle"]

\* The command line interface is not running.
CliIdle ==
    /\ command = ""
    /\ circuits = 0
    /\ cli = NoCli

Init ==
    /\ \E t \in Comp(8, MaxInput) :
          /\ vk = VkOf(t)
          /\ instances \in InstanceSets(MaxInput - SumSeq(t))
    /\ supplied \in SuppliedSamples
    /\ pc = "validate"
    /\ log = <<>>
    /\ outcome = "running"
    /\ failure = "none"
    /\ locals = EmptyLocals
    /\ result = NoResult
    /\ EvalIdle
    /\ BatchIdle
    /\ QueryIdle
    /\ TwoIdle
    /\ RetypeIdle
    /\ CliIdle

---------------------------------------------------------------------------
\* The outcomes of one statement group of from_transcript.

\* The group performs no transcript read and no capability call that fails.
Goto(next) ==
    /\ pc' = next
    /\ UNCHANGED <<vk, instances, supplied, outcome, failure, result, evalVars,
                   batchVars, queryVars, twoVars,
                   retypeVars, cliVars>>

\* A panic: an assert! that fails, or an unwrap() of an Err.  pc keeps the
\* place of the panic.
Panic(cause) ==
    /\ outcome' = "panic"
    /\ failure' = cause
    /\ UNCHANGED <<vk, instances, supplied, pc, locals, result, evalVars,
                   batchVars, queryVars, twoVars,
                   retypeVars, cliVars>>

\* A capability call whose Err is noted, and the statement tried again.
ReturnErrRetries ==
    /\ failure' = "capability"
    /\ UNCHANGED <<vk, instances, supplied, pc, outcome, locals, result,
                   evalVars, batchVars, queryVars, twoVars,
                   retypeVars, cliVars>>

\* The ? operator on an Err of a capability call: from_transcript returns it.
ReturnErr ==
    /\ outcome' = "err"
    /\ failure' = "capability"
    /\ UNCHANGED <<vk, instances, supplied, pc, locals, result, evalVars,
                   batchVars, queryVars, twoVars,
                   retypeVars, cliVars>>

\* A group that performs the transcript operations of groups[1], then lifts
\* what it read with from_constant (when lifts), then groups[2], and so on.
\* A read that returns an io error is unwrapped: a panic after the reads
\* before it.  A from_constant that fails returns its error with ?.
\* A log entry is <<operation, what, proof instance, index>>.
CanFail(op) == op[1] \in {"read_point", "read_scalar"}

Step(here, next, groups, lifts, newLocals) ==
    /\ pc = here
    /\ outcome = "running"
    /\ \/ /\ log' = log \o Concat(groups)
          /\ locals' = newLocals
          /\ Goto(next)
       \/ \E g \in 1..Len(groups) : \E j \in 1..Len(groups[g]) :
             /\ CanFail(groups[g][j])
             /\ log' = log \o Concat(SubSeq(groups, 1, g - 1))
                           \o SubSeq(groups[g], 1, j - 1)
             /\ Panic("io")
       \/ \E g \in 1..Len(groups) :
             /\ lifts
             /\ groups[g] # <<>>
             /\ log' = log \o Concat(SubSeq(groups, 1, g))
             /\ ReturnErr

\* A group of capability calls with no transcript operation (when calls).
LiftStep(here, next, calls) ==
    /\ pc = here
    /\ outcome = "running"
    /\ log' = log
    /\ \/ /\ locals' = locals
          /\ Goto(next)
       \/ /\ calls
          /\ ReturnErr

\* The groups of a statement that runs once per proof instance.
ProofIndices == 1..num_proofs

Items(op, what, k, n) == [i \in 1..n |-> <<op, what, k, i>>]

\* A squeeze from a hash state that every run on the machine feeds.
SqueezeShared(here, next, name) ==
    Step(here, next, <<Items("squeeze", name, 0, 1)>>, TRUE,
         [locals EXCEPT ![name] = Len(log) + Len(parked.log) + 1])

Squeeze(here, next, name) ==
    Step(here, next, <<Items("squeeze", name, 0, 1)>>, TRUE,
         [locals EXCEPT ![name] = Len(log) + 1])

---------------------------------------------------------------------------
\* from_transcript, lines 501-871.

\* Lines 501-503: assert!(instances.len() != vk.cs.num_instance_columns).
ColumnCountAssert(n) == n # vk.num_instance_columns

ValidateInstances ==
    /\ pc = "validate"
    /\ outcome = "running"
    /\ log' = log
    /\ IF \A k \in 1..num_proofs : ColumnCountAssert(Len(instances[k]))
       THEN locals' = locals /\ Goto("commit")
       ELSE Panic("assert")

\* Line 511: assert!(instance.len() > params.n - (blinding_factors + 1)).
InstanceLenAssert(len) == len > InstanceLimit

\* Lines 505-516: every column passes the assert and is committed with
\* commit_lagrange; a commitment is named by the length of its column.
CommitInstances ==
    /\ pc = "commit"
    /\ outcome = "running"
    /\ log' = log
    /\ IF \A k \in 1..num_proofs : \A c \in 1..Len(instances[k]) :
             InstanceLenAssert(instances[k][c])
       THEN /\ locals' = [locals EXCEPT !.instance_commitments = instances]
            /\ Goto("hash_vk")
       ELSE Panic("assert")

\* Line 522: vk.hash_into(transcript).
HashVk ==
    Step("hash_vk", "absorb_instances",
         <<Items("common_scalar", "vk", 0, 1)>>, FALSE, locals)

\* Lines 524-529: common_point of every instance commitment.
AbsorbInstances ==
    LET Op(k) == Items("common_point", "instance", k,
                       Len(locals.instance_commitments[k]))
    IN Step("absorb_instances", "lift_instances",
            [k \in ProofIndices |-> Op(k)], FALSE, locals)

\* Lines 531-539: pgate.from_constant of every instance commitment.
LiftInstances ==
    LiftStep("lift_instances", "advice",
             \E k \in 1..num_proofs : locals.instance_commitments[k] # <<>>)

\* The advice commitments counted by the instance columns.
AdviceCountOfInstances == vk.num_instance_columns

\* The count of line 544.
AdviceCount == vk.num_advice_columns

\* Lines 541-550: read_n_points per proof instance, each lifted.
ReadAdvice ==
    LET Op(k) == Items("read_point", "advice", k, AdviceCount)
    IN Step("advice", "theta", [k \in ProofIndices |-> Op(k)], TRUE,
            [locals EXCEPT !.advice_commitments =
                               [k \in 1..num_proofs |-> AdviceCount]])

\* Lines 554-556.
SqueezeTheta == Squeeze("theta", "lookups_permuted", "theta")

\* Lines 558-567: read_permuted_commitments of every lookup argument.
PermutedOps(k) ==
    Concat([l \in 1..vk.lookups |->
              <<<<"read_point", "permuted_input", k, l>>,
                <<"read_point", "permuted_table", k, l>>>>])

ReadLookupsPermuted ==
    Step("lookups_permuted", "beta",
         [k \in ProofIndices |-> PermutedOps(k)], FALSE,
         [locals EXCEPT !.lookups_permuted =
                            [k \in 1..num_proofs |-> vk.lookups]])

\* Lines 570-572.
SqueezeBeta == Squeeze("beta", "gamma", "beta")

\* Lines 575-577.
SqueezeGamma == Squeeze("gamma", "permutations_committed", "gamma")

\* Lines 579-584: read_product_commitments of the permutation argument.
ReadPermutationProducts ==
    LET Op(k) == Items("read_point", "permutation_product", k, permutation_sets)
    IN Step("permutations_committed", "lookups_committed",
            [k \in ProofIndices |-> Op(k)], FALSE,
            [locals EXCEPT !.permutations_committed =
                               [k \in 1..num_proofs |-> permutation_sets]])

\* Lines 586-595: read_product_commitment of every permuted lookup.
ReadLookupProducts ==
    LET Op(k) == Items("read_point", "lookup_product", k,
                       locals.lookups_permuted[k])
    IN Step("lookups_committed", "random",
            [k \in ProofIndices |-> Op(k)], FALSE,
            [locals EXCEPT !.lookups_committed = locals.lookups_permuted])

\* The random commitment read with the squeeze of y left out.
ReadRandomSkipsY ==
    Step("random", "h_commitments", <<Items("read_point", "random", 0, 1)>>,
         TRUE, [locals EXCEPT !.random_commitment = 1])

\* Lines 597-598.
ReadRandom ==
    Step("random", "y", <<Items("read_point", "random", 0, 1)>>, TRUE,
         [locals EXCEPT !.random_commitment = 1])

\* Lines 601-602.
SqueezeY == Squeeze("y", "h_commitments", "y")

\* Lines 604-608.
ReadH ==
    Step("h_commitments", "x",
         <<Items("read_point", "h", 0, quotient_poly_degree)>>, TRUE,
         [locals EXCEPT !.h_commitments = quotient_poly_degree])

\* Lines 612-613.
SqueezeX == Squeeze("x", "instance_evals", "x")

\* The counts of lines 617, 626 and 633.
InstanceEvalCount == vk.instance_queries

AdviceEvalCount == vk.advice_queries

FixedEvalCount == vk.fixed_queries

\* The instance and advice evaluations read proof instance by proof instance.
ReadInstanceEvalsInterleaved ==
    LET Op(k) == Items("read_scalar", "instance_eval", k, vk.instance_queries)
                 \o Items("read_scalar", "advice_eval", k, vk.advice_queries)
    IN Step("instance_evals", "fixed_evals",
            [k \in ProofIndices |-> Op(k)], TRUE,
            [locals EXCEPT !.instance_evals =
                               [k \in 1..num_proofs |-> vk.instance_queries],
                           !.advice_evals =
                               [k \in 1..num_proofs |-> vk.advice_queries]])

\* Lines 615-622.
ReadInstanceEvals ==
    LET Op(k) == Items("read_scalar", "instance_eval", k, InstanceEvalCount)
    IN Step("instance_evals", "advice_evals",
            [k \in ProofIndices |-> Op(k)], TRUE,
            [locals EXCEPT !.instance_evals =
                               [k \in 1..num_proofs |-> InstanceEvalCount]])

\* The advice evaluations kept for every proof instance but the last.
ReadAdviceEvalsDropsLast ==
    LET Op(k) == Items("read_scalar", "advice_eval", k, AdviceEvalCount)
    IN Step("advice_evals", "fixed_evals", [k \in ProofIndices |-> Op(k)], TRUE,
            [locals EXCEPT !.advice_evals =
                               [k \in 1..(num_proofs - 1) |-> AdviceEvalCount]])

\* Lines 624-631.
ReadAdviceEvals ==
    LET Op(k) == Items("read_scalar", "advice_eval", k, AdviceEvalCount)
    IN Step("advice_evals", "fixed_evals", [k \in ProofIndices |-> Op(k)], TRUE,
            [locals EXCEPT !.advice_evals =
                               [k \in 1..num_proofs |-> AdviceEvalCount]])

\* Lines 633-636.
ReadFixedEvals ==
    Step("fixed_evals", "random_eval",
         <<Items("read_scalar", "fixed_eval", 0, FixedEvalCount)>>, TRUE,
         [locals EXCEPT !.fixed_evals = FixedEvalCount])

\* Lines 638-639.
ReadRandomEval ==
    Step("random_eval", "permutations_common",
         <<Items("read_scalar", "random_eval", 0, 1)>>, TRUE,
         [locals EXCEPT !.random_eval = 1])

\* Line 641: vk.permutation.evaluate reads one scalar per permutation column.
PermutationCommon ==
    Step("permutations_common", "permutation_evaluated",
         <<Items("read_scalar", "permutation_common_eval", 0,
                 vk.permutation_columns)>>, FALSE,
         [locals EXCEPT !.permutations_common = vk.permutation_columns])

\* Lines 643-646: Committed::evaluate reads, for every set, the product
\* evaluation, the next one and, for every set but the last, the last one.
PermutationEvalOps(k) ==
    Concat([s \in 1..locals.permutations_committed[k] |->
              <<<<"read_scalar", "permutation_product_eval", k, s>>,
                <<"read_scalar", "permutation_product_next_eval", k, s>>>>
              \o (IF s < locals.permutations_committed[k]
                  THEN <<<<"read_scalar", "permutation_product_last_eval", k, s>>>>
                  ELSE <<>>)])

PermutationEvaluate ==
    Step("permutation_evaluated", "permutation_lift",
         [k \in ProofIndices |-> PermutationEvalOps(k)], FALSE,
         [locals EXCEPT !.permutation_evaluated = locals.permutations_committed])

\* Lines 647-714: the evaluated sets are lifted with from_constant.
LiftPermutation ==
    LiftStep("permutation_lift", "lookup_evaluated",
             \E k \in 1..num_proofs : locals.permutation_evaluated[k] > 0)

\* Lines 716-724: lookup evaluate reads five scalars per lookup argument.
LookupEvalOps(k) ==
    Concat([l \in 1..locals.lookups_committed[k] |->
              <<<<"read_scalar", "lookup_product_eval", k, l>>,
                <<"read_scalar", "lookup_product_next_eval", k, l>>,
                <<"read_scalar", "lookup_permuted_input_eval", k, l>>,
                <<"read_scalar", "lookup_permuted_input_inv_eval", k, l>>,
                <<"read_scalar", "lookup_permuted_table_eval", k, l>>>>])

LookupEvaluate ==
    Step("lookup_evaluated", "assemble",
         [k \in ProofIndices |-> LookupEvalOps(k)], FALSE,
         [locals EXCEPT !.lookup_evaluated = locals.lookups_committed])

\* The struct returned, its u multiplied by the challenge x.
VerifierParamsKeyedU ==
    [returned |-> TRUE,
     common |-> [l |-> BlindingFactors + 1, n |-> DomainSize],
     lookup_evaluated |-> locals.lookup_evaluated,
     permutation_evaluated |-> locals.permutation_evaluated,
     instance_commitments |-> locals.instance_commitments,
     instance_evals |-> locals.instance_evals,
     instance_queries |-> vk.instance_queries,
     advice_commitments |-> locals.advice_commitments,
     advice_evals |-> locals.advice_evals,
     advice_queries |-> vk.advice_queries,
     fixed_evals |-> locals.fixed_evals,
     fixed_queries |-> vk.fixed_queries,
     permutation_evals |-> locals.permutations_common,
     vanish_commitments |-> locals.h_commitments,
     random_commitment |-> locals.random_commitment,
     random_eval |-> locals.random_eval,
     beta |-> locals.beta,
     gamma |-> locals.gamma,
     theta |-> locals.theta,
     delta |-> "FieldExt::DELTA",
     x |-> locals.x,
     u |-> (supplied.u * locals.x) % Modulus,
     v |-> supplied.v,
     xi |-> supplied.xi,
     omega |-> "vk.domain.get_omega()"]

\* Lines 793-870: the struct returned.  It has no field for y.  delta is the
\* field's constant DELTA and omega the generator of the domain of vk, which
\* the run does not compute with: they are named, not valued.
VerifierParams ==
    [returned |-> TRUE,
     common |-> [l |-> BlindingFactors + 1, n |-> DomainSize],
     lookup_evaluated |-> locals.lookup_evaluated,
     permutation_evaluated |-> locals.permutation_evaluated,
     instance_commitments |-> locals.instance_commitments,
     instance_evals |-> locals.instance_evals,
     instance_queries |-> vk.instance_queries,
     advice_commitments |-> locals.advice_commitments,
     advice_evals |-> locals.advice_evals,
     advice_queries |-> vk.advice_queries,
     fixed_evals |-> locals.fixed_evals,
     fixed_queries |-> vk.fixed_queries,
     permutation_evals |-> locals.permutations_common,
     vanish_commitments |-> locals.h_commitments,
     random_commitment |-> locals.random_commitment,
     random_eval |-> locals.random_eval,
     beta |-> locals.beta,
     gamma |-> locals.gamma,
     theta |-> locals.theta,
     delta |-> "FieldExt::DELTA",
     x |-> locals.x,
     u |-> supplied.u,
     v |-> supplied.v,
     xi |-> supplied.xi,
     omega |-> "vk.domain.get_omega()"]

\* Lines 726-870: the lookups, the fixed commitments, the gates and the
\* constants delta, u, v, xi and omega are lifted; Ok(VerifierParams).
Assemble ==
    /\ pc = "assemble"
    /\ outcome = "running"
    /\ log' = log
    /\ \/ /\ outcome' = "ok"
          /\ result' = VerifierParams
          /\ UNCHANGED <<vk, instances, supplied, pc, failure, locals, evalVars,
                   batchVars, queryVars, twoVars,
                   retypeVars, cliVars>>
       \/ ReturnErr

Next ==
    \/ ValidateInstances
    \/ CommitInstances
    \/ HashVk
    \/ AbsorbInstances
    \/ LiftInstances
    \/ ReadAdvice
    \/ SqueezeTheta
    \/ ReadLookupsPermuted
    \/ SqueezeBeta
    \/ SqueezeGamma
    \/ ReadPermutationProducts
    \/ ReadLookupProducts
    \/ ReadRandom
    \/ SqueezeY
    \/ ReadH
    \/ SqueezeX
    \/ ReadInstanceEvals
    \/ ReadAdviceEvals
    \/ ReadFixedEvals
    \/ ReadRandomEval
    \/ PermutationCommon
    \/ PermutationEvaluate
    \/ LiftPermutation
    \/ LookupEvaluate
    \/ Assemble

Spec == Init /\ [][Next]_vars

---------------------------------------------------------------------------
\* Two runs of from_transcript, each on a context and a transcript of its
\* own (lines 482-500: the function reads and writes nothing but what its
\* parameters refer to), interleaved statement group by statement group.

\* The state of the run that is executing.
RunState ==
    [vk |-> vk, instances |-> instances, supplied |-> supplied, pc |-> pc,
     log |-> log, outcome |-> outcome, failure |-> failure,
     locals |-> locals, result |-> result]

\* The size of a list of proof instances, as InstanceSets counts it.
RECURSIVE InstanceSize(_)
InstanceSize(is) ==
    IF is = <<>> THEN 0 ELSE 1 + Len(Head(is)) + InstanceSize(Tail(is))

InitTwo ==
    /\ \E t1 \in Comp(8, MaxInputPair) :
       \E i1 \in InstanceSets(MaxInputPair - SumSeq(t1)) :
       \E t2 \in Comp(8, MaxInputPair - SumSeq(t1) - InstanceSize(i1)) :
       \E i2 \in InstanceSets(MaxInputPair - SumSeq(t1) - InstanceSize(i1)
                                - SumSeq(t2)) :
       \E s1 \in SuppliedSamples : \E s2 \in SuppliedSamples \ {s1} :
          /\ vk = VkOf(t1)
          /\ instances = i1
          /\ supplied = s1
          /\ parked = [NoRun EXCEPT !.vk = VkOf(t2), !.instances = i2,
                                    !.supplied = s2, !.pc = "validate",
                                    !.outcome = "running"]
    /\ active = 1
    /\ pc = "validate"
    /\ log = <<>>
    /\ outcome = "running"
    /\ failure = "none"
    /\ locals = EmptyLocals
    /\ result = NoResult
    /\ EvalIdle
    /\ BatchIdle
    /\ QueryIdle
    /\ RetypeIdle
    /\ CliIdle

\* The run that executes is suspended and the other one resumed.
Switch ==
    /\ active' = 3 - active
    /\ parked' = RunState
    /\ vk' = parked.vk
    /\ instances' = parked.instances
    /\ supplied' = parked.supplied
    /\ pc' = parked.pc
    /\ log' = parked.log
    /\ outcome' = parked.outcome
    /\ failure' = parked.failure
    /\ locals' = parked.locals
    /\ result' = parked.result
    /\ UNCHANGED <<evalVars, batchVars, queryVars, retypeVars, cliVars>>

NextTwo ==
    \/ Next
    \/ Switch

SpecTwo == InitTwo /\ [][NextTwo]_vars

---------------------------------------------------------------------------
\* The native field capability (FieldCode) over the integers modulo Modulus.

FieldElements == 0..(Modulus - 1)

FieldZero == 0

FieldAdd(a, b) == (a + b) % Modulus

FieldSub(a, b) == (a + Modulus - b) % Modulus

FieldMul(a, b) == (a * b) % Modulus

FieldNeg(a) == (Modulus - a) % Modulus

---------------------------------------------------------------------------
\* Gate expressions (halo2's Expression), as tuples whose first field is the
\* variant: <<"Constant", c>>, <<"Selector", s>>,
\* <<"Fixed", query_index, column_index, rotation>>, the same for "Advice"
\* and "Instance", <<"Negated", a>>, <<"Sum", a, b>>, <<"Product", a, b>>,
\* <<"Scaled", a, f>>.

QueryIndices == {0, 1}

ConstantSamples == {1, Modulus - 2}

EvalSamples == {2, Modulus - 1}

Leaves ==
    {<<"Constant", c>> : c \in ConstantSamples}
    \cup {<<"Selector", 0>>}
    \cup {<<col, q, 0, 0>> : col \in {"Fixed", "Advice", "Instance"},
                             q \in QueryIndices}

\* The expressions of exactly n nodes.
RECURSIVE ExpressionsOfSize(_)
ExpressionsOfSize(n) ==
    IF n = 1 THEN Leaves
    ELSE {<<"Negated", a>> : a \in ExpressionsOfSize(n - 1)}
         \cup {<<"Scaled", a, f>> : a \in ExpressionsOfSize(n - 1),
                                    f \in ConstantSamples}
         \cup UNION {{<<op, a, b>> : op \in {"Sum", "Product"},
                                     a \in ExpressionsOfSize(i),
                                     b \in ExpressionsOfSize(n - 1 - i)} :
                     i \in 1..(n - 2)}

Expressions == UNION {ExpressionsOfSize(n) : n \in 1..MaxNodes}

RECURSIVE HasSelector(_)
HasSelector(e) ==
    CASE e[1] = "Selector" -> TRUE
      [] e[1] \in {"Constant", "Fixed", "Advice", "Instance"} -> FALSE
      [] e[1] \in {"Negated", "Scaled"} -> HasSelector(e[2])
      [] OTHER -> HasSelector(e[2]) \/ HasSelector(e[3])

\* The lookups by query index: evals[n] of a Vec is the (n + 1)-th element.
Assignments ==
    [fixed : [1..Cardinality(QueryIndices) -> EvalSamples],
     advice : [1..Cardinality(QueryIndices) -> EvalSamples],
     instance : [1..Cardinality(QueryIndices) -> EvalSamples]]

\* The value of an evaluation, or the panic of the Selector arm.
Value(v) == [panic |-> FALSE, value |-> v]

Panicked == [panic |-> TRUE, value |-> 0]

\* The operands of the subtraction exchanged: a - zero.
NegatedArmSwapped(a) == FieldSub(a, FieldZero)

\* Lines 83-87: zero - a.
NegatedArm(a) == FieldSub(FieldZero, a)

\* Lines 88-92: a + b.
SumArm(a, b) == FieldAdd(a, b)

\* Lines 93-97: a * b.
ProductArm(a, b) == FieldMul(a, b)

\* Lines 98-101: f * a.
ScaledArm(a, f) == FieldMul(f, a)

\* Lines 68-82: the lookup closure applied to the query index.
ColumnArm(evals, query_index) == evals[query_index + 1]

\* Lines 55-104: Expression::ctx_evaluate.  Operands are evaluated first, so
\* a panic in an operand is the panic of the whole.
RECURSIVE ctx_evaluate(_, _)
ctx_evaluate(e, asg) ==
    CASE e[1] = "Constant" -> Value(e[2])
      [] e[1] = "Selector" -> Panicked
      [] e[1] = "Fixed" -> Value(ColumnArm(asg.fixed, e[2]))
      [] e[1] = "Advice" -> Value(ColumnArm(asg.advice, e[2]))
      [] e[1] = "Instance" -> Value(ColumnArm(asg.instance, e[2]))
      [] e[1] = "Negated" ->
            LET a == ctx_evaluate(e[2], asg)
            IN IF a.panic THEN Panicked ELSE Value(NegatedArm(a.value))
      [] e[1] = "Sum" ->
            LET a == ctx_evaluate(e[2], asg)
                b == ctx_evaluate(e[3], asg)
            IN IF a.panic \/ b.panic THEN Panicked
               ELSE Value(SumArm(a.value, b.value))
      [] e[1] = "Product" ->
            LET a == ctx_evaluate(e[2], asg)
                b == ctx_evaluate(e[3], asg)
            IN IF a.panic \/ b.panic THEN Panicked
               ELSE Value(ProductArm(a.value, b.value))
      [] e[1] = "Scaled" ->
            LET a == ctx_evaluate(e[2], asg)
            IN IF a.panic THEN Panicked ELSE Value(ScaledArm(a.value, e[3]))

\* Lines 904-914: Expression::evaluate with the closures of the test: the
\* constant itself, a panic for a selector, the evaluations by query index,
\* -a, a + b, a * b and a * scalar.
RECURSIVE evaluate(_, _)
evaluate(e, asg) ==
    CASE e[1] = "Constant" -> Value(e[2])
      [] e[1] = "Selector" -> Panicked
      [] e[1] = "Fixed" -> Value(asg.fixed[e[2] + 1])
      [] e[1] = "Advice" -> Value(asg.advice[e[2] + 1])
      [] e[1] = "Instance" -> Value(asg.instance[e[2] + 1])
      [] e[1] = "Negated" ->
            LET a == evaluate(e[2], asg)
            IN IF a.panic THEN Panicked ELSE Value(FieldNeg(a.value))
      [] e[1] = "Sum" ->
            LET a == evaluate(e[2], asg)
                b == evaluate(e[3], asg)
            IN IF a.panic \/ b.panic THEN Panicked
               ELSE Value((a.value + b.value) % Modulus)
      [] e[1] = "Product" ->
            LET a == evaluate(e[2], asg)
                b == evaluate(e[3], asg)
            IN IF a.panic \/ b.panic THEN Panicked
               ELSE Value((a.value * b.value) % Modulus)
      [] e[1] = "Scaled" ->
            LET a == evaluate(e[2], asg)
            IN IF a.panic THEN Panicked
               ELSE Value((a.value * e[3]) % Modulus)

\* The run is not under way in the specifications of the evaluator and of
\* the batcher.
RunIdle ==
    /\ vk = VkOf(<<0, 0, 0, 0, 0, 0, 0, 0>>)
    /\ instances = <<>>
    /\ supplied = NoSupplied
    /\ pc = "idle"
    /\ log = <<>>
    /\ outcome = "idle"
    /\ failure = "none"
    /\ locals = EmptyLocals
    /\ result = NoResult

InitEval ==
    /\ poly \in Expressions
    /\ assignment \in Assignments
    /\ evaluated = NotEvaluated
    /\ RunIdle
    /\ BatchIdle
    /\ QueryIdle
    /\ TwoIdle
    /\ RetypeIdle
    /\ CliIdle

\* Lines 897-915: one (poly, evaluations) case of test_ctx_evaluate.
test_ctx_evaluate ==
    /\ ~evaluated.done
    /\ evaluated' = [done |-> TRUE,
                     res |-> ctx_evaluate(poly, assignment),
                     expected |-> evaluate(poly, assignment)]
    /\ UNCHANGED <<poly, assignment, runVars, batchVars, queryVars, twoVars,
                   retypeVars, cliVars>>

NextEval == test_ctx_evaluate

SpecEval == InitEval /\ [][NextEval]_vars

---------------------------------------------------------------------------
\* from_expression, lines 407-480: a gate expression of the verifying key,
\* whose constants are of the key's field, is re-typed into an expression
\* over the scalars of the arithmetic capability.

\* A constant of the verifying key's field, not lifted.
Native(c) == <<"F", c>>

\* sgate.from_constant on the native field, when it returns Ok.
from_constant(c) == c[2] % Modulus

\* The column leaves: query 0 of column 0 at rotation 0, query 1 of column 1
\* at rotation -1.
NativeLeaves ==
    {<<"Constant", Native(c)>> : c \in ConstantSamples}
    \cup {<<"Selector", 0>>}
    \cup {<<col, q, q, -q>> : col \in {"Fixed", "Advice", "Instance"},
                              q \in QueryIndices}

RECURSIVE NativeExpressionsOfSize(_)
NativeExpressionsOfSize(n) ==
    IF n = 1 THEN NativeLeaves
    ELSE {<<"Negated", a>> : a \in NativeExpressionsOfSize(n - 1)}
         \cup {<<"Scaled", a, Native(f)>> : a \in NativeExpressionsOfSize(n - 1),
                                            f \in ConstantSamples}
         \cup UNION {{<<op, a, b>> : op \in {"Sum", "Product"},
                                     a \in NativeExpressionsOfSize(i),
                                     b \in NativeExpressionsOfSize(n - 1 - i)} :
                     i \in 1..(n - 2)}

NativeExpressions == UNION {NativeExpressionsOfSize(n) : n \in 1..MaxNodes}

Retyped(tree) == [outcome |-> "ok", tree |-> tree]

RetypeFailed == [outcome |-> "err", tree |-> NoPoly]

\* from_expression with the operands of a Sum exchanged.
RECURSIVE from_expression_swapped(_, _)
from_expression_swapped(e, ok) ==
    CASE e[1] = "Constant" ->
            IF ok THEN Retyped(<<"Constant", from_constant(e[2])>>)
            ELSE RetypeFailed
      [] e[1] \in {"Selector", "Fixed", "Advice", "Instance"} -> Retyped(e)
      [] e[1] = "Negated" ->
            LET b == from_expression_swapped(e[2], ok)
            IN IF b.outcome # "ok" THEN RetypeFailed
               ELSE Retyped(<<"Negated", b.tree>>)
      [] e[1] \in {"Sum", "Product"} ->
            LET b1 == from_expression_swapped(e[2], ok)
                b2 == from_expression_swapped(e[3], ok)
            IN IF b1.outcome # "ok" \/ b2.outcome # "ok" THEN RetypeFailed
               ELSE IF e[1] = "Sum" THEN Retyped(<<e[1], b2.tree, b1.tree>>)
               ELSE Retyped(<<e[1], b1.tree, b2.tree>>)
      [] e[1] = "Scaled" ->
            LET b == from_expression_swapped(e[2], ok)
            IN IF b.outcome # "ok" \/ ~ok THEN RetypeFailed
               ELSE Retyped(<<"Scaled", b.tree, from_constant(e[3])>>)

\* Lines 418-479.  ok tells whether the from_constant calls return Ok; the
\* Err of one is returned with ?.
RECURSIVE from_expression(_, _)
from_expression(e, ok) ==
    CASE e[1] = "Constant" ->
            IF ok THEN Retyped(<<"Constant", from_constant(e[2])>>)
            ELSE RetypeFailed
      [] e[1] \in {"Selector", "Fixed", "Advice", "Instance"} -> Retyped(e)
      [] e[1] = "Negated" ->
            LET b == from_expression(e[2], ok)
            IN IF b.outcome # "ok" THEN RetypeFailed
               ELSE Retyped(<<"Negated", b.tree>>)
      [] e[1] \in {"Sum", "Product"} ->
            LET b1 == from_expression(e[2], ok)
                b2 == from_expression(e[3], ok)
            IN IF b1.outcome # "ok" \/ b2.outcome # "ok" THEN RetypeFailed
               ELSE Retyped(<<e[1], b1.tree, b2.tree>>)
      [] e[1] = "Scaled" ->
            LET b == from_expression(e[2], ok)
            IN IF b.outcome # "ok" \/ ~ok THEN RetypeFailed
               ELSE Retyped(<<"Scaled", b.tree, from_constant(e[3])>>)

InitRetype ==
    /\ expr \in NativeExpressions
    /\ assignment \in Assignments
    /\ poly = NoPoly
    /\ evaluated = NotEvaluated
    /\ retyped = NotRetyped
    /\ RunIdle
    /\ BatchIdle
    /\ QueryIdle
    /\ TwoIdle
    /\ CliIdle

\* Lines 794-811: a gate polynomial of vk is re-typed; the tree returned is
\* a polynomial of self.gates.
FromExpression ==
    /\ ~retyped.done
    /\ \E ok \in BOOLEAN :
          LET res == from_expression(expr, ok)
          IN /\ retyped' = [done |-> TRUE, res |-> res]
             /\ poly' = IF res.outcome = "ok" THEN res.tree ELSE poly
    /\ UNCHANGED <<expr, assignment, evaluated, runVars, batchVars, queryVars,
                   twoVars, cliVars>>

\* ctx_evaluate on the native field of the polynomial re-typed.
EvaluateRetyped ==
    /\ retyped.done
    /\ retyped.res.outcome = "ok"
    /\ test_ctx_evaluate

NextRetype ==
    \/ FromExpression
    \/ EvaluateRetyped

SpecRetype == InitRetype /\ [][NextRetype]_vars

---------------------------------------------------------------------------
\* CliBuilder::run, halo2-snark-aggregator-sdk/src/lib.rs lines 176-200, and
\* the dispatch handlers of lines 80-173.  cli.pc is the `if` that run is
\* at, cli.calls the calls of dispatch handlers made so far, as pairs of
\* caller and handler.

\* The commands that run compares self.args.command with, in its order.
Commands ==
    <<"sample_setup", "sample_run", "verify_setup", "verify_run",
      "verify_check", "verify_solidity">>

\* Some other values of the --command argument.
OtherCommands ==
    {"", "sample", "sample_setup ", "SAMPLE_SETUP", "sample-run", "verify",
     "verify_setup,verify_run", "solidity", "help"}

Handled(calls) == [outcome |-> "returned", calls |-> calls]

HandlerPanicked(calls) == [outcome |-> "panicked", calls |-> calls]

\* Lines 80-84; ok tells whether the calls into the circuit crate return.
dispatch_sample_setup(ok) ==
    IF ok THEN Handled(<<>>) ELSE HandlerPanicked(<<>>)

\* Lines 101-105.
dispatch_sample_run(ok) ==
    IF ok THEN Handled(<<>>) ELSE HandlerPanicked(<<>>)

\* Lines 107-120.
dispatch_verify_setup(ok) ==
    IF ok THEN Handled(<<>>) ELSE HandlerPanicked(<<>>)

\* Lines 122-140.
dispatch_verify_run(ok) ==
    IF ok THEN Handled(<<>>) ELSE HandlerPanicked(<<>>)

\* Lines 142-147: the Err of request.call is unwrapped.
dispatch_verify_check(ok) ==
    IF ok THEN Handled(<<>>) ELSE HandlerPanicked(<<>>)

\* Lines 149-173: assert_eq!($n, 1), then dispatch_sample_run is called for
\* the proof that the solidity is generated from.
dispatch_verify_solidity(ok) ==
    IF circuits # 1 THEN HandlerPanicked(<<>>)
    ELSE LET made == <<<<"dispatch_verify_solidity", "dispatch_sample_run">>>>
             run == dispatch_sample_run(ok)
         IN IF run.outcome = "panicked" THEN HandlerPanicked(made \o run.calls)
            ELSE Handled(made \o run.calls)

\* The handler called at the i-th `if` of run.
Dispatch(i, ok) ==
    CASE i = 1 -> dispatch_sample_setup(ok)
      [] i = 2 -> dispatch_sample_run(ok)
      [] i = 3 -> dispatch_verify_setup(ok)
      [] i = 4 -> dispatch_verify_run(ok)
      [] i = 5 -> dispatch_verify_check(ok)
      [] i = 6 -> dispatch_verify_solidity(ok)

\* Every `if` tests the command for another name.
TakenAlsoForSetup(name) ==
    command = name \/ (name = "sample_run" /\ command = "sample_setup")

\* if self.args.command == name.
Taken(name) == command = name

\* dispatch_sample_run has one expression in its body, and the arrays of
\* dispatch_verify_setup $n elements: the macro is expanded for one circuit.
InitCli ==
    /\ command \in {Commands[i] : i \in 1..Len(Commands)} \cup OtherCommands
    /\ circuits = 1
    /\ cli = [pc |-> 1, calls |-> <<>>, outcome |-> "running"]
    /\ RunIdle
    /\ EvalIdle
    /\ BatchIdle
    /\ QueryIdle
    /\ TwoIdle
    /\ RetypeIdle

\* The i-th `if` of run: the handler is called when the command is its name,
\* and its panic ends run.
If(i) ==
    /\ cli.outcome = "running"
    /\ cli.pc = i
    /\ IF Taken(Commands[i])
       THEN \E ok \in BOOLEAN :
               LET res == Dispatch(i, ok)
                   made == cli.calls
                           \o <<<<"run", "dispatch_" \o Commands[i]>>>>
                           \o res.calls
               IN cli' = IF res.outcome = "panicked"
                         THEN [pc |-> i, calls |-> made, outcome |-> "panicked"]
                         ELSE [pc |-> i + 1, calls |-> made,
                               outcome |-> "running"]
       ELSE cli' = [cli EXCEPT !.pc = i + 1]
    /\ UNCHANGED <<command, circuits, runVars, evalVars, batchVars, queryVars,
                   twoVars, retypeVars>>

\* Lines 177-179.
IfSampleSetup == If(1)

\* Lines 181-183.
IfSampleRun == If(2)

\* Lines 185-187.
IfVerifySetup == If(3)

\* Lines 189-191.
IfVerifyRun == If(4)

\* Lines 193-195.
IfVerifyCheck == If(5)

\* Lines 197-199.
IfVerifySolidity == If(6)

\* Line 200: run returns ().
RunReturns ==
    /\ cli.outcome = "running"
    /\ cli.pc = Len(Commands) + 1
    /\ cli' = [cli EXCEPT !.outcome = "returned"]
    /\ UNCHANGED <<command, circuits, runVars, evalVars, batchVars, queryVars,
                   twoVars, retypeVars>>

NextCli ==
    \/ IfSampleSetup
    \/ IfSampleRun
    \/ IfVerifySetup
    \/ IfVerifyRun
    \/ IfVerifyCheck
    \/ IfVerifySolidity
    \/ RunReturns

SpecCli == InitCli /\ [][NextCli]_vars

---------------------------------------------------------------------------
\* batch_multi_open_proofs, lines 374-403.  An EvaluationProof is a record
\* [point, w, s]: the point, the commitment w and the opening-remainder term
\* s.  The schema terms commit!(w), scalar!(point) * commit!(w) + s are
\* valued in the integers modulo Modulus.

PointSamples == {1, 2}

CommitmentSamples == {1, Modulus - 2}

RemainderSamples == {0, 1}

EvaluationProofs ==
    [point : PointSamples, w : CommitmentSamples, s : RemainderSamples]

QueryLists == UNION {[1..k -> EvaluationProofs] : k \in 0..MaxQueries}

\* Line 381: proofs.reverse().
Reverse(q) == [i \in 1..Len(q) |-> q[Len(q) + 1 - i]]

\* Lines 382-392: the accumulator made of proofs[0].
Seed(p) ==
    [w_x |-> p.w, w_g |-> FieldAdd(FieldMul(p.point, p.w), p.s)]

\* Lines 394-400: the closure handed to map.
FoldClosure(acc, p, uu) ==
    [w_x |-> FieldAdd(FieldMul(uu, acc.w_x), p.w),
     w_g |-> FieldAdd(FieldAdd(FieldMul(uu, acc.w_g), FieldMul(p.point, p.w)),
                      p.s)]

\* Lines 393 and 401: let _ = proofs[1..].iter().map(closure).  Iterator::map
\* is lazy and the adaptor is dropped without being consumed: the closure is
\* applied to none of the elements.
ElementsMapped(rest) == <<>>

RECURSIVE FoldLeft(_, _, _)
FoldLeft(acc, q, uu) ==
    IF q = <<>> THEN acc
    ELSE FoldLeft(FoldClosure(acc, Head(q), uu), Tail(q), uu)

\* Lines 381-402, for a query list of at least one query.
fold_proofs(q, uu) ==
    LET reversed == Reverse(q)
    IN FoldLeft(Seed(reversed[1]), ElementsMapped(Tail(reversed)), uu)

InitBatch ==
    /\ proofs \in QueryLists
    /\ u \in FieldElements
    /\ multi_open = NoMultiOpen
    /\ RunIdle
    /\ EvalIdle
    /\ QueryIdle
    /\ TwoIdle
    /\ RetypeIdle
    /\ CliIdle

\* Lines 365-372 and 380: get_point_schemas is unimplemented!(), so the call
\* of batch_multi_open_proofs panics at line 380.
batch_multi_open_proofs ==
    /\ ~multi_open.done
    /\ multi_open' = [done |-> TRUE, from |-> "get_point_schemas",
                      outcome |-> "panic", w_x |-> 0, w_g |-> 0]
    /\ UNCHANGED <<proofs, u, runVars, evalVars, queryVars, twoVars,
                   retypeVars, cliVars>>

\* Lines 381-402 on the query list proofs, which is what get_point_schemas
\* is to return: proofs[0] of an empty list is a panic.
fold_point_schemas ==
    /\ ~multi_open.done
    /\ multi_open' =
          IF proofs = <<>>
          THEN [done |-> TRUE, from |-> "fold", outcome |-> "panic",
                w_x |-> 0, w_g |-> 0]
          ELSE [done |-> TRUE, from |-> "fold", outcome |-> "ok",
                w_x |-> fold_proofs(proofs, u).w_x,
                w_g |-> fold_proofs(proofs, u).w_g]
    /\ UNCHANGED <<proofs, u, runVars, evalVars, queryVars, twoVars,
                   retypeVars, cliVars>>

NextBatch ==
    \/ batch_multi_open_proofs
    \/ fold_point_schemas

SpecBatch == InitBatch /\ [][NextBatch]_vars

---------------------------------------------------------------------------
\* rotate_omega, x_next, x_last and queries, lines 172-350, on the native
\* field.  A call returns Ok(value), returns the Err of an arithmetic
\* capability call, or panics.

\* The invertible field elements.
Units == {a \in FieldElements : \E b \in FieldElements : FieldMul(a, b) = 1}

FieldInv(a) == CHOOSE b \in FieldElements : FieldMul(a, b) = 1

FieldDiv(a, b) == FieldMul(a, FieldInv(b))

RECURSIVE Pow(_, _)
Pow(b, e) == IF e = 0 THEN 1 % Modulus ELSE FieldMul(b, Pow(b, e - 1))

\* The generators of the evaluation domain (vk.domain.get_omega(), line
\* 867): the elements of multiplicative order DomainSize.
Omegas ==
    {a \in Units : /\ Pow(a, DomainSize) = 1
                   /\ \A d \in 1..(DomainSize - 1) : Pow(a, d) # 1}

\* The rotations the code asks for: -l (line 185), n (line 202) and the
\* rotations of the column queries (lines 311, 320, 341).
Rotations == {-(BlindingFactors + 1), -1, 0, 1, DomainSize}

\* instance_queries, advice_queries and fixed_queries: (column, at) pairs.
ColumnQueries == {<<>>, <<<<0, 0>>>>, <<<<0, -1>>, <<0, 1>>>>}

\* self.gates: gates[i] is the number of polynomials of gate i.
GateShapes == {<<>>, <<2, 1>>}

\* The fields of VerifierParams that queries reads; proofs is the length of
\* the per-proof vectors, lookups the number of lookup arguments.
Verifiers ==
    [x : FieldElements, omega : Omegas,
     common : {[l |-> BlindingFactors + 1, n |-> DomainSize]},
     proofs : {1, 2}, lookups : {0, 1}, gates : GateShapes,
     instance_queries : ColumnQueries,
     advice_queries : ColumnQueries,
     fixed_queries : ColumnQueries]

Returned(v) == [outcome |-> "ok", value |-> v]

Failed == [outcome |-> "err", value |-> 0]

\* unimplemented!(..) panics.
Unimplemented == [outcome |-> "panic", value |-> 0]

\* Lines 172-174.
rotate_omega(self, at) == Unimplemented

\* Lines 176-180: x * omega; mul tells whether the capability's mul is Ok.
x_next(self, mul) ==
    IF mul THEN Returned(FieldMul(self.x, self.omega)) ELSE Failed

\* Lines 182-186.
x_last(self) == rotate_omega(self, -self.common.l)

\* Where queries stopped, how, and the points it had computed by then.
Stopped(where, how, points, terms) ==
    [outcome |-> how, at |-> where, points |-> points, expression |-> terms]

\* Lines 223-234: one ctx_evaluate of each polynomial of each gate, on the
\* evaluations of proof k.
GateTerms(self, k) ==
    Concat([i \in 1..Len(self.gates) |->
               [j \in 1..self.gates[i] |->
                   [evaluate |-> <<i, j>>, proof |-> k]]])

\* Lines 213-273: the vector `expression`, the terms of the permutation
\* argument and of one lookup argument held as one entry each.
expression(self) ==
    Concat([k \in 1..self.proofs |->
               GateTerms(self, k)
               \o <<[argument |-> "permutation", proof |-> k]>>
               \o [i \in 1..self.lookups |->
                      [argument |-> "lookup", proof |-> k, index |-> i]]])

\* Lines 196-349.  Each of lines 199-202 returns the Err of its call with ?;
\* line 349 ends the function with unimplemented!, after the (lazy) chain of
\* queries of lines 288-348 is built.  The vector `expression` is created at
\* line 213, after the points.
queries(self, mul) ==
    LET next == x_next(self, mul)
        last == x_last(self)
        xn == rotate_omega(self, self.common.n)
    IN  IF next.outcome # "ok" THEN Stopped("x_next", next.outcome, <<>>, <<>>)
        ELSE IF last.outcome # "ok"
        THEN Stopped("x_last", last.outcome, [x_next |-> next.value], <<>>)
        ELSE IF xn.outcome # "ok"
        THEN Stopped("xn", xn.outcome,
                     [x_next |-> next.value, x_last |-> last.value,
                      x_inv |-> FieldDiv(self.x, self.omega)], <<>>)
        ELSE Stopped("unimplemented", "panic",
                     [x_next |-> next.value, x_last |-> last.value,
                      x_inv |-> FieldDiv(self.x, self.omega),
                      xn |-> xn.value], expression(self))

InitQueries ==
    /\ verifier \in Verifiers
    /\ queried = NotQueried
    /\ RunIdle
    /\ EvalIdle
    /\ BatchIdle
    /\ TwoIdle
    /\ RetypeIdle
    /\ CliIdle

Call(op, at, res) ==
    /\ ~queried.done
    /\ queried' = [done |-> TRUE, op |-> op, at |-> at, res |-> res]
    /\ UNCHANGED <<verifier, runVars, evalVars, batchVars, twoVars,
                   retypeVars, cliVars>>

RotateOmega ==
    \E at \in Rotations : Call("rotate_omega", at, rotate_omega(verifier, at))

XNext == \E mul \in BOOLEAN : Call("x_next", 0, x_next(verifier, mul))

XLast == Call("x_last", 0, x_last(verifier))

Queries == \E mul \in BOOLEAN : Call("queries", 0, queries(verifier, mul))

NextQueries ==
    \/ RotateOmega
    \/ XNext
    \/ XLast
    \/ Queries

SpecQueries == InitQueries /\ [][NextQueries]_vars

---------------------------------------------------------------------------
\* Properties of ctx_evaluate, checked under SpecEval.

\* C1: for every expression tree without a selector and every assignment,
\* ctx_evaluate with the native field returns a value, and it is the value of
\* the direct evaluation of the tree.
C1_EvaluatorEquivalence ==
    (evaluated.done /\ ~HasSelector(poly)) =>
        /\ ~evaluated.res.panic
        /\ evaluated.res = evaluated.expected

\* A negated, scaled advice evaluation looked up at query index 1.
C1_Witness ==
    /\ evaluated.done
    /\ poly[1] = "Negated"
    /\ poly[2][1] = "Scaled"
    /\ poly[2][2] = <<"Advice", 1, 0, 0>>
    /\ ~evaluated.res.panic
    /\ evaluated.res.value # 0

---------------------------------------------------------------------------
\* Properties of the transcript order of from_transcript, checked under Spec.

SqueezeOf(name) == <<"squeeze", name, 0, 1>>

ReadPointOf(what, k, i) == <<"read_point", what, k, i>>

Squeezed(name) == \E i \in 1..Len(log) : log[i] = SqueezeOf(name)

FirstIndex(e) == CHOOSE i \in 1..Len(log) : log[i] = e

TimesSqueezed(name) ==
    Cardinality({i \in 1..Len(log) : log[i][1] = "squeeze" /\ log[i][2] = name})

ForEachProof(F(_)) == Concat([k \in 1..num_proofs |-> F(k)])

IsPrefix(a, b) == Len(a) <= Len(b) /\ SubSeq(b, 1, Len(a)) = a

\* The commitment phase as the specification orders it.
C2_PermutedOf(k) ==
    Concat([l \in 1..vk.lookups |->
              <<ReadPointOf("permuted_input", k, l),
                ReadPointOf("permuted_table", k, l)>>])

C2_PermutationProductsOf(k) ==
    [i \in 1..permutation_sets |-> ReadPointOf("permutation_product", k, i)]

C2_LookupProductsOf(k) ==
    [l \in 1..vk.lookups |-> ReadPointOf("lookup_product", k, l)]

C2_Expected ==
    <<SqueezeOf("theta")>>
    \o ForEachProof(C2_PermutedOf)
    \o <<SqueezeOf("beta"), SqueezeOf("gamma")>>
    \o ForEachProof(C2_PermutationProductsOf)
    \o ForEachProof(C2_LookupProductsOf)
    \o <<ReadPointOf("random", 0, 1), SqueezeOf("y")>>
    \o [i \in 1..quotient_poly_degree |-> ReadPointOf("h", 0, i)]
    \o <<SqueezeOf("x")>>

\* C2: once x is squeezed, the operations from the squeeze of theta to the
\* squeeze of x are: theta, the permuted commitments of every lookup of every
\* proof instance, beta, gamma, the permutation products and then the lookup
\* products of every proof instance, the random commitment, y, the quotient
\* commitments, x; each challenge was squeezed once.
C2_CommitmentPhaseOrder ==
    Squeezed("x") =>
        /\ SubSeq(log, FirstIndex(SqueezeOf("theta")), FirstIndex(SqueezeOf("x")))
              = C2_Expected
        /\ \A name \in {"theta", "beta", "gamma", "y", "x"} :
              TimesSqueezed(name) = 1

\* x squeezed for two proof instances, a lookup and a permutation product.
C2_Witness ==
    /\ Squeezed("x")
    /\ num_proofs = 2
    /\ vk.lookups >= 1
    /\ permutation_sets >= 1

C3_VkHash == <<"common_scalar", "vk", 0, 1>>

C3_InstancesOf(k) ==
    [c \in 1..Len(instances[k]) |-> <<"common_point", "instance", k, c>>]

C3_Absorbed == <<C3_VkHash>> \o ForEachProof(C3_InstancesOf)

C3_AdviceOf(k) ==
    [i \in 1..vk.num_advice_columns |-> ReadPointOf("advice", k, i)]

\* C3: the first operation on the transcript is the absorption of the
\* verifying key; nothing is read or squeezed before the key and every
\* instance commitment (proof order, column order) are absorbed; and what
\* precedes the squeeze of theta is these absorptions followed by
\* num_advice_columns advice commitments for every proof instance.
C3_AbsorbThenAdvice ==
    /\ log # <<>> => log[1] = C3_VkHash
    /\ (\E i \in 1..Len(log) : log[i][1] \in {"read_point", "read_scalar", "squeeze"})
          => IsPrefix(C3_Absorbed, log)
    /\ Squeezed("theta") =>
          SubSeq(log, 1, FirstIndex(SqueezeOf("theta")) - 1)
             = C3_Absorbed \o ForEachProof(C3_AdviceOf)

\* theta squeezed for two proof instances with instance and advice columns.
C3_Witness ==
    /\ Squeezed("theta")
    /\ num_proofs = 2
    /\ \A k \in 1..num_proofs : Len(instances[k]) >= 1
    /\ vk.num_advice_columns >= 1

\* The place of a read in the order of the evaluation phase.
C4_Rank(e) ==
    CASE e[2] = "instance_eval" -> 1
      [] e[2] = "advice_eval" -> 2
      [] e[2] = "fixed_eval" -> 3
      [] e[2] = "random_eval" -> 4
      [] e[2] = "permutation_common_eval" -> 5
      [] e[2] \in {"permutation_product_eval", "permutation_product_next_eval",
                   "permutation_product_last_eval"} -> 6
      [] e[2] \in {"lookup_product_eval", "lookup_product_next_eval",
                   "lookup_permuted_input_eval", "lookup_permuted_input_inv_eval",
                   "lookup_permuted_table_eval"} -> 7
      [] OTHER -> 0

C4_AfterX == (FirstIndex(SqueezeOf("x")) + 1)..Len(log)

C4_Read(rank, k) ==
    \E i \in C4_AfterX : C4_Rank(log[i]) = rank /\ log[i][3] = k

\* C4: after the squeeze of x every operation is the read of a scalar, the
\* reads come in the order instance, advice, fixed, random, common
\* permutation, permutation, lookup evaluations, those of one kind in the
\* order of the proof instances; and a run that returns Ok has read every
\* kind the verifying key declares.
C4_EvaluationPhaseOrder ==
    Squeezed("x") =>
        /\ \A i \in C4_AfterX :
              /\ log[i][1] = "read_scalar"
              /\ C4_Rank(log[i]) > 0
              /\ \A j \in C4_AfterX :
                    i < j =>
                       \/ C4_Rank(log[i]) < C4_Rank(log[j])
                       \/ /\ C4_Rank(log[i]) = C4_Rank(log[j])
                          /\ log[i][3] <= log[j][3]
        /\ outcome = "ok" =>
              /\ \A k \in 1..num_proofs :
                    /\ vk.instance_queries > 0 => C4_Read(1, k)
                    /\ vk.advice_queries > 0 => C4_Read(2, k)
                    /\ permutation_sets > 0 => C4_Read(6, k)
                    /\ vk.lookups > 0 => C4_Read(7, k)
              /\ vk.fixed_queries > 0 => C4_Read(3, 0)
              /\ C4_Read(4, 0)
              /\ vk.permutation_columns > 0 => C4_Read(5, 0)

\* Ok returned for two proof instances with instance evaluations, a lookup
\* and a permutation product.
C4_Witness ==
    /\ outcome = "ok"
    /\ num_proofs = 2
    /\ vk.instance_queries >= 1
    /\ vk.lookups >= 1
    /\ permutation_sets >= 1

\* C5: a run that returns Ok has read as many instance and advice
\* evaluations per proof instance, and as many fixed evaluations, as the
\* verifying key's query lists are long, and a transcript that ends within
\* these reads makes the run return an error (MalformedProof).
C5_CountInvariant ==
    /\ outcome = "ok" =>
          /\ result.instance_evals = [k \in 1..num_proofs |-> vk.instance_queries]
          /\ result.advice_evals = [k \in 1..num_proofs |-> vk.advice_queries]
          /\ result.fixed_evals = vk.fixed_queries
    /\ (failure = "io" /\ pc \in {"instance_evals", "advice_evals", "fixed_evals"})
          => outcome = "err"

\* C6: a transcript read that fails makes from_transcript return an error
\* through its Result; it does not panic.
C6_ReadFailureIsError == failure = "io" => outcome = "err"

\* C7: the validation of the column counts lets a run continue when every
\* proof instance has num_instance_columns columns, and ends it with a
\* returned error when one has not.
C7_ColumnCountValidation ==
    /\ pc # "validate" =>
          \A k \in 1..num_proofs : Len(instances[k]) = vk.num_instance_columns
    /\ (pc = "validate" /\ outcome # "running") =>
          /\ outcome = "err"
          /\ \E k \in 1..num_proofs : Len(instances[k]) # vk.num_instance_columns

\* C8: the instance columns are committed when every one is at most
\* n - (blinding_factors + 1) long, and the run ends with a returned error
\* when one is longer.
C8_InstanceLengthBound ==
    /\ pc \notin {"validate", "commit"} =>
          /\ \A k \in 1..num_proofs : \A c \in 1..Len(instances[k]) :
                instances[k][c] <= DomainSize - (BlindingFactors + 1)
          /\ locals.instance_commitments = instances
    /\ (pc = "commit" /\ outcome # "running") =>
          /\ outcome = "err"
          /\ \E k \in 1..num_proofs : \E c \in 1..Len(instances[k]) :
                instances[k][c] > DomainSize - (BlindingFactors + 1)

---------------------------------------------------------------------------
\* Properties of the fold of batch_multi_open_proofs, checked under SpecBatch.

\* c_1 + u c_2 + ... + u^(k-1) c_k.
RECURSIVE C9_HornerWx(_)
C9_HornerWx(q) ==
    IF Len(q) = 1 THEN q[1].w
    ELSE (q[1].w + u * C9_HornerWx(Tail(q))) % Modulus

\* The same sum of the terms p_i c_i + s_i.
RECURSIVE C9_HornerWg(_)
C9_HornerWg(q) ==
    IF Len(q) = 1 THEN (q[1].point * q[1].w + q[1].s) % Modulus
    ELSE (q[1].point * q[1].w + q[1].s + u * C9_HornerWg(Tail(q))) % Modulus

\* C9: the fold of a list of k >= 1 queries returns w_x = c_1 + u c_2 + ...
\* + u^(k-1) c_k and the like sum w_g: the last query seeds the accumulator
\* and every query before it is folded in.
C9_HornerFold ==
    (multi_open.done /\ multi_open.from = "fold" /\ proofs # <<>>) =>
        /\ multi_open.outcome = "ok"
        /\ multi_open.w_x = C9_HornerWx(proofs)
        /\ multi_open.w_g = C9_HornerWg(proofs)

\* C10: the fold of [q] ++ rest, rest not empty, is the fold of rest with q
\* folded in: (u w_x(rest) + c_q, u w_g(rest) + p_q c_q + s_q).
C10_BatchingStep ==
    (multi_open.done /\ multi_open.from = "fold" /\ Len(proofs) >= 2) =>
        LET q == Head(proofs)
            rest == fold_proofs(Tail(proofs), u)
        IN /\ multi_open.outcome = "ok"
           /\ multi_open.w_x = (u * rest.w_x + q.w) % Modulus
           /\ multi_open.w_g = (u * rest.w_g + q.point * q.w + q.s) % Modulus

---------------------------------------------------------------------------
\* Properties of rotate_omega and queries, checked under SpecQueries.

\* x * omega^at, a negative at through the inverse of omega.
Rotated(x, omega, at) ==
    IF at >= 0 THEN FieldMul(x, Pow(omega, at))
    ELSE FieldMul(x, Pow(FieldInv(omega), -at))

\* C11: rotate_omega(x, at) returns exactly x * omega^at, a negative at
\* through the inverse of omega, and so x itself for at = 0.
C11_RotationExact ==
    (queried.done /\ queried.op = "rotate_omega") =>
        /\ queried.res.outcome = "ok"
        /\ queried.res.value = Rotated(verifier.x, verifier.omega, queried.at)

\* The queries of one kind of column: query query_index pairs the commitment
\* of its column with the evaluation at query_index, at rotate_omega(x, at).
DirectQueries(kind, k, qs) ==
    [i \in 1..Len(qs) |->
        [point |-> Rotated(verifier.x, verifier.omega, qs[i][2]),
         commitment |-> <<kind, k, qs[i][1]>>,
         eval |-> <<kind, k, i - 1>>]]

\* The queries of proof instance k: instance columns, advice columns, the
\* permutation argument, the lookup arguments.
ProofQueries(k) ==
    DirectQueries("instance", k, verifier.instance_queries)
    \o DirectQueries("advice", k, verifier.advice_queries)
    \o <<[argument |-> "permutation", proof |-> k]>>
    \o [i \in 1..verifier.lookups |->
           [argument |-> "lookup", proof |-> k, index |-> i]]

\* C12: unless a capability call returns an error, queries returns a list
\* that holds, for each proof instance in order, its instance
\* column queries, advice column queries, permutation queries and lookup
\* queries, then the fixed column queries, the common permutation queries and
\* the vanishing queries; a column query pairs commitment[column] with
\* eval[query_index] at rotate_omega(x, at).
C12_QueryOrder ==
    (queried.done /\ queried.op = "queries" /\ queried.res.outcome # "err") =>
        /\ queried.res.outcome = "ok"
        /\ queried.res.value =
              Concat([k \in 1..verifier.proofs |-> ProofQueries(k)])
              \o DirectQueries("fixed", 0, verifier.fixed_queries)
              \o <<[argument |-> "permutation_common"],
                   [argument |-> "vanishing"]>>

\* C19: unless a capability call returns an error, the xn that queries
\* hands to the Lagrange terms and to the vanishing argument is x to the
\* power n, n the size of the domain.
C19_DomainPower ==
    (queried.done /\ queried.op = "queries" /\ queried.res.outcome # "err") =>
        /\ queried.res.outcome = "ok"
        /\ queried.res.points.xn = Pow(verifier.x, verifier.common.n)

\* C20: unless a capability call returns an error, queries computes
\* x_next = x * omega, x_last = rotate_omega(x, -l) and x_inv = x / omega,
\* the points the permutation argument (x_next, x_last) and every lookup
\* argument (x, x_inv, x_next) are queried at.
C20_SpecialPoints ==
    (queried.done /\ queried.op = "queries" /\ queried.res.outcome # "err") =>
        /\ queried.res.at \notin {"x_last"}
        /\ queried.res.points.x_next = FieldMul(verifier.x, verifier.omega)
        /\ queried.res.points.x_last =
              Rotated(verifier.x, verifier.omega, -verifier.common.l)
        /\ queried.res.points.x_inv = FieldDiv(verifier.x, verifier.omega)

\* The terms of proof instance k: one per polynomial of each gate, in the
\* order of the gates and of their polynomials, then the permutation
\* argument's, then each lookup argument's.
ProofTerms(k) ==
    Concat([i \in 1..Len(verifier.gates) |->
               [j \in 1..verifier.gates[i] |->
                   [evaluate |-> <<i, j>>, proof |-> k]]])
    \o <<[argument |-> "permutation", proof |-> k]>>
    \o [i \in 1..verifier.lookups |->
           [argument |-> "lookup", proof |-> k, index |-> i]]

\* C23: unless a capability call returns an error, queries invokes the
\* evaluator once for each (proof, gate, polynomial) and builds the list of
\* terms that holds, for each proof in order, its gate polynomial terms
\* (gates in order, polynomials in order), then its permutation terms, then
\* the terms of each of its lookups.
C23_TermOrder ==
    (queried.done /\ queried.op = "queries" /\ queried.res.outcome # "err") =>
        queried.res.expression =
            Concat([k \in 1..verifier.proofs |-> ProofTerms(k)])

---------------------------------------------------------------------------
\* The selector arm of ctx_evaluate, checked under SpecEval.

\* C13: when a selector node reaches ctx_evaluate, the evaluation does not
\* abort: it ends with an UnsupportedExpression error that is handed back to
\* the caller through the return value.
C13_SelectorIsError ==
    (evaluated.done /\ HasSelector(poly)) =>
        /\ ~evaluated.res.panic
        /\ "error" \in DOMAIN evaluated.res
        /\ evaluated.res.error = "UnsupportedExpression"

---------------------------------------------------------------------------
\* The batcher stage as a whole, checked under SpecBatch.

\* C14: on a Verifier State whose query list is not empty, the call of
\* batch_multi_open_proofs ends, and it ends with a Multi-Open Proof: not
\* with an abort.
C14_BatcherCompletes ==
    (multi_open.done /\ multi_open.from = "get_point_schemas"
        /\ proofs # <<>>) =>
        multi_open.outcome = "ok"

---------------------------------------------------------------------------
\* Failures of from_transcript, checked under Spec.

\* C15: once a transcript operation or a capability call has failed, the run
\* performs no further transcript operation and does not try the failed
\* statement again, and the run that failed has ended without a Verifier
\* State, complete or partial, for the caller.
C15_NoRetryNoPartialState ==
    [][/\ failure \in {"io", "capability"} =>
             /\ log' = log
             /\ pc' = pc
             /\ result' = result
       /\ failure' \in {"io", "capability"} =>
             /\ outcome' \in {"panic", "err"}
             /\ result' = NoResult]_vars

\* A read failed in the middle of the advice evaluations of the second of
\* two proof instances, after the reads of the first.
C15_Witness ==
    /\ failure = "io"
    /\ pc = "advice_evals"
    /\ log[Len(log)] = <<"read_scalar", "advice_eval", 2, 1>>

\* C16: the Verifier State returned holds theta, beta, gamma, y and x, each
\* the value squeezed for it, u, v and xi as supplied, and delta and omega;
\* in particular the squeezed y can be read from the Verifier State.
C16_ChallengesHeld ==
    outcome = "ok" =>
        /\ \A name \in {"theta", "beta", "gamma", "y", "x"} :
              /\ name \in DOMAIN result
              /\ result[name] = locals[name]
              /\ result[name] = FirstIndex(SqueezeOf(name))
        /\ result.u = supplied.u
        /\ result.v = supplied.v
        /\ result.xi = supplied.xi
        /\ {"delta", "omega"} \subseteq DOMAIN result

\* The instances fit the verifying key: every proof instance has
\* num_instance_columns columns, none longer than the usable rows.
WellFormedInstances ==
    \A k \in 1..num_proofs :
        /\ Len(instances[k]) = vk.num_instance_columns
        /\ \A c \in 1..Len(instances[k]) : instances[k][c] <= InstanceLimit

\* C18: on the instances the proof was made for, whatever the reads of a
\* tampered transcript return, the replay ends with a returned error
\* (MalformedProof) or hands a Verifier State on to the pairing check: it
\* ends in no other way.
C18_TamperRejected ==
    (WellFormedInstances /\ outcome # "running") => outcome \in {"err", "ok"}

---------------------------------------------------------------------------
\* Two interleaved runs, checked under SpecTwo.

ReadScalarsOf(what, k, n) == [i \in 1..n |-> <<"read_scalar", what, k, i>>]

C17_InstanceEvalsOf(k) == ReadScalarsOf("instance_eval", k, vk.instance_queries)

C17_AdviceEvalsOf(k) == ReadScalarsOf("advice_eval", k, vk.advice_queries)

C17_PermutationEvalsOf(k) ==
    Concat([s \in 1..permutation_sets |->
              <<<<"read_scalar", "permutation_product_eval", k, s>>,
                <<"read_scalar", "permutation_product_next_eval", k, s>>>>
              \o (IF s < permutation_sets
                  THEN <<<<"read_scalar", "permutation_product_last_eval", k, s>>>>
                  ELSE <<>>)])

C17_LookupEvalsOf(k) ==
    Concat([l \in 1..vk.lookups |->
              <<<<"read_scalar", "lookup_product_eval", k, l>>,
                <<"read_scalar", "lookup_product_next_eval", k, l>>,
                <<"read_scalar", "lookup_permuted_input_eval", k, l>>,
                <<"read_scalar", "lookup_permuted_input_inv_eval", k, l>>,
                <<"read_scalar", "lookup_permuted_table_eval", k, l>>>>])

\* The transcript operations of a whole run, as vk and instances alone
\* determine them.
C17_SoloLog ==
    C3_Absorbed
    \o ForEachProof(C3_AdviceOf)
    \o C2_Expected
    \o ForEachProof(C17_InstanceEvalsOf)
    \o ForEachProof(C17_AdviceEvalsOf)
    \o ReadScalarsOf("fixed_eval", 0, vk.fixed_queries)
    \o ReadScalarsOf("random_eval", 0, 1)
    \o ReadScalarsOf("permutation_common_eval", 0, vk.permutation_columns)
    \o ForEachProof(C17_PermutationEvalsOf)
    \o ForEachProof(C17_LookupEvalsOf)

\* The challenge squeezed for name in the run whose operations are solo.
C17_SoloChallenge(solo, name) ==
    CHOOSE i \in 1..Len(solo) : solo[i] = SqueezeOf(name)

\* What a run alone returns, as vk, instances and u, v, xi determine it.
C17_SoloResult(solo) ==
    [returned |-> TRUE,
     common |-> [l |-> BlindingFactors + 1, n |-> DomainSize],
     lookup_evaluated |-> [k \in 1..num_proofs |-> vk.lookups],
     permutation_evaluated |-> [k \in 1..num_proofs |-> permutation_sets],
     instance_commitments |-> instances,
     instance_evals |-> [k \in 1..num_proofs |-> vk.instance_queries],
     instance_queries |-> vk.instance_queries,
     advice_commitments |-> [k \in 1..num_proofs |-> vk.num_advice_columns],
     advice_evals |-> [k \in 1..num_proofs |-> vk.advice_queries],
     advice_queries |-> vk.advice_queries,
     fixed_evals |-> vk.fixed_queries,
     fixed_queries |-> vk.fixed_queries,
     permutation_evals |-> vk.permutation_columns,
     vanish_commitments |-> quotient_poly_degree,
     random_commitment |-> 1,
     random_eval |-> 1,
     beta |-> C17_SoloChallenge(solo, "beta"),
     gamma |-> C17_SoloChallenge(solo, "gamma"),
     theta |-> C17_SoloChallenge(solo, "theta"),
     delta |-> "FieldExt::DELTA",
     x |-> C17_SoloChallenge(solo, "x"),
     u |-> supplied.u,
     v |-> supplied.v,
     xi |-> supplied.xi,
     omega |-> "vk.domain.get_omega()"]

\* The run that executes is as far as a run alone on its inputs can be.
C17_AsAlone ==
    LET solo == C17_SoloLog
    IN /\ IsPrefix(log, solo)
       /\ \A name \in {"theta", "beta", "gamma", "y", "x"} :
             (Squeezed(name) /\ ~(pc = name /\ failure = "capability"))
                => locals[name] = C17_SoloChallenge(solo, name)
       /\ outcome = "ok" => log = solo /\ result = C17_SoloResult(solo)
       /\ outcome # "ok" => result = NoResult

\* C17: of two runs of from_transcript on distinct contexts and transcripts,
\* interleaved in any order, the one that executes has performed a prefix of
\* the transcript operations its own inputs determine, holds the challenges
\* of that sequence (once they are lifted) and, when it returns Ok, returns
\* what its own inputs determine, as it does alone; and none of its steps
\* changes anything of the run that waits.
C17_RunsIndependent ==
    /\ []C17_AsAlone
    /\ [][active' = active => parked' = parked]_vars

\* The second run has squeezed y while the first, which has squeezed gamma,
\* waits.
C17_Witness ==
    /\ active = 2
    /\ outcome = "running"
    /\ pc = "h_commitments"
    /\ parked.outcome = "running"
    /\ parked.pc = "permutations_committed"

---------------------------------------------------------------------------
\* The challenges of the Verifier State, checked under Spec.

\* The squeezes of the log.
SqueezesOf(ops) == SelectSeq(ops, LAMBDA e : e[1] = "squeeze")

\* C21: a run that returns Ok has squeezed five challenges from the
\* transcript, theta, beta, gamma, y and x, each once; and the u, v, xi,
\* delta and omega it returns are those of its caller, of the field and of
\* the verifying key, whatever the transcript made of the run, so that two
\* runs on the same key and the same u, v, xi return the same five.
C21_TranscriptIndependent ==
    /\ Len(SqueezesOf(log)) <= 5
    /\ outcome = "ok" =>
          /\ SqueezesOf(log) = <<SqueezeOf("theta"), SqueezeOf("beta"),
                                 SqueezeOf("gamma"), SqueezeOf("y"),
                                 SqueezeOf("x")>>
          /\ result.u = supplied.u
          /\ result.v = supplied.v
          /\ result.xi = supplied.xi
          /\ result.delta = "FieldExt::DELTA"
          /\ result.omega = "vk.domain.get_omega()"

\* Ok returned on a transcript with points and scalars of a proof instance
\* between the squeezes, for the second sample of u, v, xi.
C21_Witness ==
    /\ outcome = "ok"
    /\ num_proofs >= 1
    /\ vk.num_advice_columns >= 1
    /\ vk.advice_queries >= 1
    /\ supplied.u = Modulus - 1

\* The vectors of the Verifier State that queries indexes by proof instance.
PerProofFields ==
    {"instance_commitments", "advice_commitments", "instance_evals",
     "advice_evals", "permutation_evaluated", "lookup_evaluated"}

\* C24: in a Verifier State returned by from_transcript, the per-proof
\* vectors instance_commitments, advice_commitments, instance_evals,
\* advice_evals, permutation_evaluated and lookup_evaluated all have one
\* entry per proof instance supplied, every advice_commitments[k] holds
\* num_advice_columns commitments and every lookup_evaluated[k] one entry
\* per lookup argument of the verifying key.
C24_PerProofAlignment ==
    outcome = "ok" =>
        /\ \A f \in PerProofFields : Len(result[f]) = Len(instances)
        /\ \A k \in 1..Len(instances) :
              /\ result.advice_commitments[k] = vk.num_advice_columns
              /\ result.lookup_evaluated[k] = vk.lookups

\* Ok returned for two proof instances, with advice columns and a lookup.
C24_Witness ==
    /\ outcome = "ok"
    /\ Len(instances) = 2
    /\ vk.num_advice_columns >= 1
    /\ vk.lookups >= 1

---------------------------------------------------------------------------
\* Properties of from_expression, checked under SpecRetype.

RECURSIVE HasConstant(_)
HasConstant(e) ==
    CASE e[1] = "Constant" -> TRUE
      [] e[1] \in {"Selector", "Fixed", "Advice", "Instance"} -> FALSE
      [] e[1] = "Negated" -> HasConstant(e[2])
      [] e[1] = "Scaled" -> TRUE
      [] OTHER -> HasConstant(e[2]) \/ HasConstant(e[3])

\* new has the shape and the variants of old, the leaves of old and its
\* constants lifted.
RECURSIVE SameShape(_, _)
SameShape(old, new) ==
    /\ new[1] = old[1]
    /\ Len(new) = Len(old)
    /\ CASE old[1] = "Constant" -> new[2] = from_constant(old[2])
         [] old[1] \in {"Selector", "Fixed", "Advice", "Instance"} -> new = old
         [] old[1] = "Negated" -> SameShape(old[2], new[2])
         [] old[1] = "Scaled" ->
               SameShape(old[2], new[2]) /\ new[3] = from_constant(old[3])
         [] OTHER -> SameShape(old[2], new[2]) /\ SameShape(old[3], new[3])

\* The direct evaluation of a tree of the verifying key on the native field.
RECURSIVE Direct(_, _)
Direct(e, asg) ==
    CASE e[1] = "Constant" -> e[2][2] % Modulus
      [] e[1] = "Fixed" -> asg.fixed[e[2] + 1]
      [] e[1] = "Advice" -> asg.advice[e[2] + 1]
      [] e[1] = "Instance" -> asg.instance[e[2] + 1]
      [] e[1] = "Negated" -> (Modulus - Direct(e[2], asg)) % Modulus
      [] e[1] = "Sum" -> (Direct(e[2], asg) + Direct(e[3], asg)) % Modulus
      [] e[1] = "Product" -> (Direct(e[2], asg) * Direct(e[3], asg)) % Modulus
      [] e[1] = "Scaled" -> (Direct(e[2], asg) * e[3][2]) % Modulus

\* C22: from_expression returns an error only when a from_constant fails,
\* and so never for a tree with no constant, selector or not; the tree it
\* returns has the shape and the variant at every node of the tree it was
\* given, the same column leaves and selectors, and the lift of every
\* constant and scaling factor; and ctx_evaluate on the native field of the
\* tree returned, when it holds no selector, is the direct evaluation of the
\* tree given.
C22_RetypePreservesTree ==
    retyped.done =>
        /\ retyped.res.outcome = "err" => HasConstant(expr)
        /\ retyped.res.outcome = "ok" =>
              /\ SameShape(expr, retyped.res.tree)
              /\ poly = retyped.res.tree
        /\ (evaluated.done /\ ~HasSelector(expr)) =>
              /\ ~evaluated.res.panic
              /\ evaluated.res.value = Direct(expr, assignment)

\* A scaled sum of a constant and a column query was re-typed and evaluated.
C22_Witness ==
    /\ retyped.done
    /\ evaluated.done
    /\ expr[1] = "Sum"
    /\ expr[2][1] = "Constant"
    /\ expr[3][1] = "Advice"
    /\ expr[3][2] = 1

\* A tree with a selector was re-typed with no error.
C22_SelectorWitness ==
    /\ retyped.done
    /\ retyped.res.outcome = "ok"
    /\ HasSelector(expr)
    /\ HasConstant(expr)

---------------------------------------------------------------------------
\* Properties of CliBuilder::run, checked under SpecCli.

\* The calls that run itself has made.
CallsOfRun == SelectSeq(cli.calls, LAMBDA c : c[1] = "run")

\* C25: run itself calls at most one dispatch handler, and only the one
\* named by the command; for a command that is none of the six names no
\* handler is called at all, by run or by a handler, run does not panic, and
\* once past its last `if` it has returned or is about to.
C25_AtMostOneHandler ==
    /\ Len(CallsOfRun) <= 1
    /\ \A i \in 1..Len(CallsOfRun) : CallsOfRun[i][2] = "dispatch_" \o command
    /\ \A i \in 1..Len(Commands) :
          (command = Commands[i] /\ cli.pc > i) =>
              CallsOfRun = <<<<"run", "dispatch_" \o Commands[i]>>>>
    /\ command \in OtherCommands =>
          /\ cli.calls = <<>>
          /\ cli.outcome \in {"running", "returned"}
          /\ cli.outcome = "running" => cli.pc <= Len(Commands) + 1

\* run returned after the handler of verify_check.
C25_Witness ==
    /\ cli.outcome = "returned"
    /\ command = "verify_check"
    /\ cli.calls = <<<<"run", "dispatch_verify_check">>>>

\* run returned for a command that is no handler's name.
C25_OtherWitness ==
    /\ cli.outcome = "returned"
    /\ command = "sample_setup "
    /\ cli.calls = <<>>

====
